---- MODULE Spec2Model ----
(***************************************************************************)
(* elysia-procedures: procedure / action composition core.                 *)
(*                                                                         *)
(* Objects live in heaps (sequences indexed by object identity):           *)
(*   arrays  - the JavaScript arrays holding middleware chains             *)
(*   mws     - Middleware objects                                          *)
(*   pbs     - ProcedureBuilder objects (their private _state record)      *)
(*   procs   - Procedure objects                                           *)
(*   abs     - ActionBuilder objects (their private _state record)         *)
(*   acts    - Action objects                                              *)
(* and tr is the state of one call of trace(options, fn).                  *)
(* A field "middlewares" holds a reference (index) into arrays, so that    *)
(* sharing of one array between a procedure and its children is visible.   *)
(***************************************************************************)
EXTENDS Integers, Sequences, FiniteSets, TLC

VARIABLES arrays, mws, pbs, procs, abs, acts, prov, invs, cache, calls, tr

vars == <<arrays, mws, pbs, procs, abs, acts, prov, invs, cache, calls, tr>>
heapVars == <<arrays, mws, pbs, procs, abs, acts, prov>>
runtime == <<invs, cache, calls>>

\* the object heaps as one record, and the assignment of a new heap
Heap ==
    [ arrays |-> arrays, mws |-> mws, pbs |-> pbs, procs |-> procs,
      abs |-> abs, acts |-> acts, prov |-> prov ]

SetHeap(H) ==
    /\ arrays' = H.arrays
    /\ mws' = H.mws
    /\ pbs' = H.pbs
    /\ procs' = H.procs
    /\ abs' = H.abs
    /\ acts' = H.acts
    /\ prov' = H.prov

EmptyHeap ==
    [ arrays |-> <<>>, mws |-> <<>>, pbs |-> <<>>, procs |-> <<>>,
      abs |-> <<>>, acts |-> <<>>,
      prov |-> [pb |-> <<>>, proc |-> <<>>, ab |-> <<>>, act |-> <<>>] ]

----------------------------------------------------------------------------
(* trace(options, fn): the optional tracing backends and the traced step *)

\* how an optional backend behaves: its import fails, it runs fn inside a
\* span, it throws before running fn, it throws after fn has run
Backends == {"absent", "ok", "failsBefore", "failsAfter"}
\* what fn does: returns a value, throws, returns a promise that rejects
FnKinds == {"value", "throws", "rejects"}

\* no call of trace is under way
NoTrace == [sentry |-> "absent", otel |-> "absent", fn |-> "value",
            pc |-> "idle", fnCalls |-> <<>>, outcome |-> "none"]

\* the outcome of a promise that follows what fn returned
FnOutcome(fn) == IF fn = "value" THEN "value" ELSE "rejected"

\* mutant of callDirect: without a backend trace resolves without running fn
callDirectNever(t) ==
    [t EXCEPT !.outcome = "value", !.pc = "done"]

\* return fn() as T
callDirect(t) ==
    [t EXCEPT !.fnCalls = Append(@, "nospan"), !.outcome = FnOutcome(t.fn), !.pc = "done"]

\* what follows the catch {} of a try block: the next import, or fn()
afterCatch(t, next) ==
    IF next = "direct" THEN callDirect(t) ELSE [t EXCEPT !.pc = next]

\* one try block once its await import(...) has settled:
\*   const { f } = await import(backend); return f(options, fn)
tryBackend(t, backend, next) ==
    LET ran == [t EXCEPT !.fnCalls = Append(@, "span")]
    IN CASE backend = "absent"      -> afterCatch(t, next)
         [] backend = "failsBefore" -> afterCatch(t, next)
         [] backend = "failsAfter"  -> afterCatch(ran, next)
         [] OTHER -> IF t.fn = "throws" THEN afterCatch(ran, next)
                     ELSE [ran EXCEPT !.outcome = FnOutcome(t.fn), !.pc = "done"]

----------------------------------------------------------------------------
(* Bounds of the model *)

\* builders, procedures and actions constructed in one behaviour
MaxObjects == 5
\* invocations started in one behaviour
MaxInv == 2
\* distinct Request objects the router hands in
MaxReq == 2

----------------------------------------------------------------------------
(* Schemas (TypeBox TObject): a set of named, typed, required properties *)

Fields == {"id", "count"}
Types == {"string", "number"}
None == "none"

NoProps == [f \in Fields |-> None]

\* the JavaScript value undefined in a schema slot
undefined == [def |-> FALSE, additionalProperties |-> TRUE, properties |-> NoProps]

\* Type.Object(properties, { additionalProperties })
TypeObject(properties, ap) ==
    [def |-> TRUE, additionalProperties |-> ap, properties |-> properties]

\* Type.Object({ f: t })
Single(f, t) == TypeObject([g \in Fields |-> IF g = f THEN t ELSE None], TRUE)

FieldsOf(schema) == {f \in Fields : schema.properties[f] # None}

\* the schemas callers hand to params / output, to query and to body
UserSchemas ==
    { Single("id", "string"), Single("count", "number"), Single("id", "number") }
QuerySchemas == { Single("count", "number") }
BodySchemas == { Single("id", "string") }

\* mutant of merge: the previous schema's properties are dropped
mergeDropPrev(prev, next) ==
    TypeObject(next.properties, FALSE)

\* mutant of merge: the next schema's properties override the previous ones
mergeNextWins(prev, next) ==
    TypeObject([f \in Fields |->
                   IF next.properties[f] # None THEN next.properties[f]
                   ELSE IF prev.def THEN prev.properties[f] ELSE None],
               FALSE)

\* merge: { ...next.properties, ...(prev ? prev.properties : {}) },
\* additionalProperties: false
merge(prev, next) ==
    TypeObject([f \in Fields |->
                   IF prev.def /\ prev.properties[f] # None
                   THEN prev.properties[f]
                   ELSE next.properties[f]],
               FALSE)

----------------------------------------------------------------------------
(* Names, documentation details, step functions *)

ProcNames == {"P"}
ActionNames == {"A"}

DetailKeys == {"summary", "description"}
NoDetails == [def |-> FALSE, fields |-> [k \in DetailKeys |-> None]]
Details ==
    { NoDetails,
      [def |-> TRUE, fields |-> [k \in DetailKeys |-> IF k = "description" THEN "text" ELSE None]],
      [def |-> TRUE, fields |-> [k \in DetailKeys |-> IF k = "summary" THEN "custom" ELSE None]] }

\* the step functions callers hand to ProcedureBuilder.build
StepFns == {"user", "void", "fail"}
\* the cache-key functions callers hand to ProcedureBuilder.cache
KeyFns == {"empty", "byId", "values"}
\* the handlers callers hand to ActionBuilder.build
ActionFns == {"full", "echo", "fail"}

NoFn == "none"

\* number of builder, procedure and action objects constructed so far
Objects == Len(pbs) + Len(procs) + Len(abs) + Len(acts)

----------------------------------------------------------------------------
(* ProcedureBuilder.  Every operation is a function from the heap H before  *)
(* the call to the heap after it; the new object is the last of its heap.   *)

\* createProcedure: the state record handed to the new ProcedureBuilder
\* (base = 0 stands for an omitted base; emptyRef is the fresh [] array)
createProcedureState(H, name, base, emptyRef) ==
    [ params      |-> IF base = 0 THEN undefined ELSE H.procs[base].params,
      query       |-> IF base = 0 THEN undefined ELSE H.procs[base].query,
      body        |-> IF base = 0 THEN undefined ELSE H.procs[base].body,
      middlewares |-> IF base = 0 THEN emptyRef ELSE H.procs[base].middlewares,
      name        |-> name,
      keys        |-> NoFn ]

createProcedure(H, name, base) ==
    [H EXCEPT
       !.arrays = IF base = 0 THEN Append(@, <<>>) ELSE @,
       !.pbs = Append(@, createProcedureState(H, name, base, Len(H.arrays) + 1)),
       !.prov.pb = Append(@, [base |-> base, parent |-> 0,
                              call |-> "createProcedure", arg |-> undefined])]

\* mutant of PB_apply: the receiver's state object is updated in place
PB_applyInPlace(builders, b, changed) ==
    Append([builders EXCEPT ![b] = changed], changed)

\* ProcedureBuilder._apply: new ProcedureBuilder({ ...this._state, ...changes })
PB_apply(builders, b, changed) ==
    Append(builders, changed)

PB_schemaCall(H, b, slot, schema) ==
    LET st == H.pbs[b] IN
    [H EXCEPT
       !.pbs = PB_apply(@, b,
                 CASE slot = "params" -> [st EXCEPT !.params = merge(st.params, schema)]
                   [] slot = "query"  -> [st EXCEPT !.query = merge(st.query, schema)]
                   [] slot = "body"   -> [st EXCEPT !.body = merge(st.body, schema)]),
       !.prov.pb = Append(@, [base |-> H.prov.pb[b].base, parent |-> b,
                              call |-> slot, arg |-> schema])]

PB_params(H, b, schema) == PB_schemaCall(H, b, "params", schema)
PB_query(H, b, schema) == PB_schemaCall(H, b, "query", schema)
PB_body(H, b, schema) == PB_schemaCall(H, b, "body", schema)

PB_cache(H, b, keys) ==
    [H EXCEPT
       !.pbs = PB_apply(@, b, [H.pbs[b] EXCEPT !.keys = keys]),
       !.prov.pb = Append(@, [base |-> H.prov.pb[b].base, parent |-> b,
                              call |-> "cache", arg |-> undefined])]

\* new Middleware(handler, name, keys); _id is the object's index in mws
Middleware(handler, name, keys) ==
    [handler |-> handler, name |-> name, keys |-> keys]

\* new Procedure(base)
Procedure(base) ==
    [ params |-> base.params, query |-> base.query, body |-> base.body,
      middlewares |-> base.middlewares ]

\* mutant of appendMiddleware: middlewares.push(middleware) on the shared array
appendMiddlewarePush(arrs, ref, m) ==
    [heap |-> [arrs EXCEPT ![ref] = Append(@, m)], ref |-> ref]

\* [...this._state.middlewares, middleware]: a new array
appendMiddleware(arrs, ref, m) ==
    [heap |-> Append(arrs, Append(arrs[ref], m)), ref |-> Len(arrs) + 1]

\* ProcedureBuilder.build(handler?)  (handler = NoFn stands for an omitted handler)
PB_build(H, b, handler) ==
    IF handler # NoFn
    THEN LET m == Len(H.mws) + 1
             r == appendMiddleware(H.arrays, H.pbs[b].middlewares, m)
             \* this._state.middlewares = [...]: assignment to the builder's own state
             st == [H.pbs[b] EXCEPT !.middlewares = r.ref]
         IN [H EXCEPT
               !.mws = Append(@, Middleware(handler, H.pbs[b].name, H.pbs[b].keys)),
               !.arrays = r.heap,
               !.pbs[b] = st,
               !.procs = Append(@, Procedure(st)),
               !.prov.proc = Append(@, [base |-> H.prov.pb[b].base, builder |-> b, mw |-> m])]
    ELSE [H EXCEPT
            !.procs = Append(@, Procedure(H.pbs[b])),
            !.prov.proc = Append(@, [base |-> H.prov.pb[b].base, builder |-> b, mw |-> 0])]

----------------------------------------------------------------------------
(* Procedure.createAction and ActionBuilder *)

\* mutant of createActionState: the procedure's body schema is not handed on
createActionStateNoBody(H, p, name, details) ==
    [ params |-> H.procs[p].params, query |-> H.procs[p].query, body |-> undefined,
      output |-> undefined, middlewares |-> H.procs[p].middlewares,
      name |-> name, details |-> details ]

\* mutant of createActionState: the action builder takes another chain
createActionStateOtherChain(H, p, name, details) ==
    [ params |-> H.procs[p].params, query |-> H.procs[p].query, body |-> H.procs[p].body,
      output |-> undefined, middlewares |-> 1, name |-> name, details |-> details ]

\* Procedure.createAction: the state record handed to the new ActionBuilder
createActionState(H, p, name, details) ==
    [ params      |-> H.procs[p].params,
      query       |-> H.procs[p].query,
      body        |-> H.procs[p].body,
      output      |-> undefined,
      middlewares |-> H.procs[p].middlewares,
      name        |-> name,
      details     |-> details ]

createAction(H, p, name, details) ==
    [H EXCEPT
       !.abs = Append(@, createActionState(H, p, name, details)),
       !.prov.ab = Append(@, [proc |-> p, parent |-> 0,
                              call |-> "createAction", arg |-> undefined])]

\* mutant of AB_apply: the receiver's state object is updated in place
AB_applyInPlace(builders, a, changed) ==
    Append([builders EXCEPT ![a] = changed], changed)

\* ActionBuilder._apply: new ActionBuilder({ ...this._state, ...changes })
AB_apply(builders, a, changed) ==
    Append(builders, changed)

AB_schemaCall(H, a, slot, schema) ==
    LET st == H.abs[a] IN
    [H EXCEPT
       !.abs = AB_apply(@, a,
                 CASE slot = "params" -> [st EXCEPT !.params = merge(st.params, schema)]
                   [] slot = "query"  -> [st EXCEPT !.query = merge(st.query, schema)]
                   [] slot = "body"   -> [st EXCEPT !.body = merge(st.body, schema)]
                   [] slot = "output" -> [st EXCEPT !.output = schema]),
       !.prov.ab = Append(@, [proc |-> H.prov.ab[a].proc, parent |-> a,
                              call |-> slot, arg |-> schema])]

AB_params(H, a, schema) == AB_schemaCall(H, a, "params", schema)
AB_query(H, a, schema) == AB_schemaCall(H, a, "query", schema)
AB_body(H, a, schema) == AB_schemaCall(H, a, "body", schema)
AB_output(H, a, schema) == AB_schemaCall(H, a, "output", schema)

\* new Action({ handler, ...this._state })
Action(handler, state) ==
    [ handler     |-> handler,
      middlewares |-> state.middlewares,
      name        |-> state.name,
      details     |-> state.details,
      params      |-> state.params,
      query       |-> state.query,
      body        |-> state.body,
      output      |-> state.output ]

\* mutant of docs: the response is documented with the body schema
docsResponseIsBody(act) ==
    [ params |-> act.params, query |-> act.query, body |-> act.body, response |-> act.body,
      detail |-> [k \in DetailKeys |->
                    IF act.details.def /\ act.details.fields[k] # None THEN act.details.fields[k]
                    ELSE IF k = "summary" THEN act.name ELSE None] ]

\* Action.docs: { params, query, body, response: this.output,
\*                detail: { summary: this.name, ...this.details } }
docs(act) ==
    [ params   |-> act.params,
      query    |-> act.query,
      body     |-> act.body,
      response |-> act.output,
      detail   |-> [k \in DetailKeys |->
                      IF act.details.def /\ act.details.fields[k] # None
                      THEN act.details.fields[k]
                      ELSE IF k = "summary" THEN act.name ELSE None] ]

\* ActionBuilder.build(handler)
AB_build(H, a, handler) ==
    [H EXCEPT
       !.acts = Append(@, Action(handler, H.abs[a])),
       !.prov.act = Append(@, [proc |-> H.prov.ab[a].proc, builder |-> a])]

----------------------------------------------------------------------------
(* Values, and the validation engine behind Value.Parse                     *)
(* (TypeBox: Clone, Clean, Default, Convert, Assert in this order)          *)

Absent == "absent"
\* the string "abc", the string "42", the number 42, the empty string
Atoms == {"S_abc", "S_42", "N_42", "S_empty"}
ValueFields == Fields \cup {"extra"}

\* the JavaScript value undefined, and an object with the given own properties
Undef == [obj |-> FALSE, fields |-> [g \in ValueFields |-> Absent]]
Obj(fields) == [obj |-> TRUE, fields |-> fields]

Vgood == Obj([g \in ValueFields |->
                CASE g = "id" -> "S_abc" [] g = "count" -> "N_42" [] OTHER -> Absent])
Vbad == Obj([g \in ValueFields |->
                CASE g = "id" -> "S_abc" [] g = "count" -> "S_abc" [] OTHER -> Absent])
Vcount == Obj([g \in ValueFields |-> IF g = "count" THEN "N_42" ELSE Absent])
Vid == Obj([g \in ValueFields |-> IF g = "id" THEN "S_abc" ELSE Absent])
Vfull == Obj([g \in ValueFields |->
                CASE g = "id" -> "S_abc" [] g = "count" -> "N_42" [] OTHER -> "S_abc"])

\* Value.Check of one property value against its type
Check(type, atom) ==
    CASE type = "number" -> atom = "N_42"
      [] type = "string" -> atom \in {"S_abc", "S_42", "S_empty"}
      [] OTHER -> FALSE

\* Value.Convert of one property value: numeric strings become numbers for a
\* number type, numbers become strings for a string type
Convert(type, atom) ==
    CASE type = "number" /\ atom = "S_42" -> "N_42"
      [] type = "string" /\ atom = "N_42" -> "S_42"
      [] OTHER -> atom

\* Value.Check of a whole value against an object schema as Assert applies it
\* after cleaning: every declared property is present and of its type
Satisfies(schema, value) ==
    /\ value.obj
    /\ \A g \in FieldsOf(schema) :
          value.fields[g] # Absent /\ Check(schema.properties[g], value.fields[g])

\* mutant of Clean: undeclared properties are kept
CleanKeep(schema, value) == value

\* Value.Clean: properties the schema does not declare are deleted
Clean(schema, value) ==
    IF ~value.obj THEN value
    ELSE Obj([g \in ValueFields |->
                IF g \in FieldsOf(schema) THEN value.fields[g] ELSE Absent])

\* a cleaned value: an object with no property the schema does not declare
OnlyDeclared(schema, value) ==
    value.obj /\ \A g \in ValueFields : g \notin FieldsOf(schema) => value.fields[g] = Absent

\* Value.Parse(schema, value): ok = FALSE stands for the thrown AssertError
Parse(schema, value) ==
    LET cleaned == Clean(schema, value)
        converted ==
            IF ~cleaned.obj THEN cleaned
            ELSE Obj([g \in ValueFields |->
                        IF g \in FieldsOf(schema) /\ cleaned.fields[g] # Absent
                        THEN Convert(schema.properties[g], cleaned.fields[g])
                        ELSE cleaned.fields[g]])
    IN [ok |-> Satisfies(schema, converted), value |-> converted]

----------------------------------------------------------------------------
(* User functions: what the step functions, cache-key functions and action  *)
(* handlers of the model return                                             *)

\* a step function's contribution: an object { user: m }, nothing, or a throw
StepResult(m, input) ==
    CASE mws[m].handler = "user" -> [kind |-> "object", user |-> m]
      [] mws[m].handler = "void" -> [kind |-> "undefined", user |-> 0]
      [] OTHER                   -> [kind |-> "throw", user |-> 0]

\* an action handler's result
ActionResult(fn, input) ==
    CASE fn = "full" -> [threw |-> FALSE, value |-> Vfull]
      [] fn = "echo" -> [threw |-> FALSE, value |-> input.params]
      [] OTHER       -> [threw |-> TRUE, value |-> Undef]

\* strings are sequences of characters
Str(atom) ==
    CASE atom = "S_abc" -> <<"a", "b", "c">>
      [] atom \in {"S_42", "N_42"} -> <<"4", "2">>
      [] OTHER -> <<>>

RECURSIVE Values(_, _)
\* Object.values(v) as strings, the own properties taken in the given order
Values(v, order) ==
    IF Len(order) = 0 THEN <<>>
    ELSE (IF v.fields[order[1]] = Absent THEN <<>> ELSE <<Str(v.fields[order[1]])>>)
         \o Values(v, Tail(order))

\* a cache-key function's result: () => [], ({ params }) => [params.id] and
\* ({ params }) => Object.values(params)
KeysResult(fn, input) ==
    CASE fn = "empty" -> [threw |-> FALSE, array |-> <<>>]
      [] fn = "byId" /\ input.params.obj ->
             [threw |-> FALSE, array |-> <<Str(input.params.fields["id"])>>]
      [] fn = "values" /\ input.params.obj ->
             [threw |-> FALSE, array |-> Values(input.params, <<"id", "count", "extra">>)]
      [] OTHER -> [threw |-> TRUE, array |-> <<>>]

RECURSIVE Join(_)
\* Array.prototype.join(',')
Join(array) ==
    IF Len(array) = 0 THEN <<>>
    ELSE IF Len(array) = 1 THEN array[1]
    ELSE array[1] \o <<",">> \o Join(Tail(array))

\* cacheKey: `${id}:[${array.join(',')}]`, kept as the pair of its two parts
cacheKey(id, array) == <<id, Join(array)>>

----------------------------------------------------------------------------
(* Action invocation: run, handle, _execute and Middleware.execute          *)
(* An invocation is suspended at an await; pc names what it waits for:      *)
(*   "keys"    the cache-key function of middleware i                       *)
(*   "step"    the step function of middleware i                            *)
(*   "handler" the action handler                                           *)
(* and "resolved" / "rejected" once its promise has settled.                *)
(* log is the trace of the invocation; its event "prior" notes, when a      *)
(* cached execute begins, that an execute of that middleware for the same   *)
(* request and keys had already completed.                                  *)

NoKey == <<0, <<>>>>
NoCtx == [request |-> 0, user |-> 0]
NoInput == [params |-> Undef, query |-> Undef, body |-> Undef]

MwsOf(a) == arrays[acts[a].middlewares]

\* mutant of run's input validation: the raw values are passed on unchecked
validateInputNone(act, raw) ==
    [ok |-> TRUE, input |-> raw]

\* run: Value.Parse of params, query and body where the action has the schema
validateInput(act, raw) ==
    LET p == IF act.params.def THEN Parse(act.params, raw.params)
             ELSE [ok |-> TRUE, value |-> raw.params]
        q == IF act.query.def THEN Parse(act.query, raw.query)
             ELSE [ok |-> TRUE, value |-> raw.query]
        b == IF act.body.def THEN Parse(act.body, raw.body)
             ELSE [ok |-> TRUE, value |-> raw.body]
    IN [ok |-> p.ok /\ q.ok /\ b.ok,
        input |-> [params |-> p.value, query |-> q.value, body |-> b.value]]

\* mutant of handleInput: handle validates like run
handleInputValidated(act, raw) == validateInput(act, raw)

\* handle: _execute({ ctx, params: ctx.params, query: ctx.query, body: ctx.body })
handleInput(act, raw) ==
    [ok |-> TRUE, input |-> raw]

\* mutant of validateOutput: the result is cleaned and converted, never rejected
validateOutputCleanOnly(act, result) ==
    IF act.output.def THEN [ok |-> TRUE, value |-> Parse(act.output, result).value]
    ELSE [ok |-> TRUE, value |-> result]

\* mutant of validateOutput: the handler's result is returned as it is
validateOutputNone(act, result) ==
    [ok |-> TRUE, value |-> result]

\* run: this.output ? Value.Parse(this.output, result) : result
validateOutput(act, result) ==
    IF act.output.def THEN Parse(act.output, result)
    ELSE [ok |-> TRUE, value |-> result]

\* mutant of mergeCtx: the middleware's contribution replaces the context
mergeCtxReplace(ctx, out) ==
    IF out.kind = "object" THEN [request |-> 0, user |-> out.user] ELSE ctx

\* mutant of mergeCtx: the middleware's contribution is not merged
mergeCtxDrop(ctx, out) == ctx

\* if (out) ctx = { ...ctx, ...out }
mergeCtx(ctx, out) ==
    IF out.kind = "object" THEN [ctx EXCEPT !.user = out.user] ELSE ctx

\* mutant of nextIndex: the loop steps over a middleware
nextIndexSkip(i) == i + 2

\* for (const middleware of this._middlewares): the position after i
nextIndex(i) == i + 1

\* mutant of stepThrows: a failing step function is treated as returning nothing
stepThrowsNever(result) == FALSE

\* a step function that throws rejects the awaited promise
stepThrows(result) == result.kind = "throw"

CallInput(inv) == [ctx |-> inv.ctx, params |-> inv.input.params,
                   query |-> inv.input.query, body |-> inv.input.body]

\* the cache-key list a cached middleware derives from an invocation's input
KeysOf(m, inv) == KeysResult(mws[m].keys, CallInput(inv))

\* an execute of middleware m for the request and key list of inv has
\* completed successfully in another invocation
Completed(m, inv) ==
    \E j \in 1..Len(invs) :
        /\ invs[j].request = inv.request
        /\ \E x \in 1..Len(invs[j].log) : invs[j].log[x] \in {<<"return", m>>, <<"hit", m>>}
        /\ ~KeysOf(m, inv).threw
        /\ KeysOf(m, invs[j]) = KeysOf(m, inv)

\* The synchronous part of _execute from the head of the loop at position
\* inv.i up to its next await: Middleware.execute is entered and calls the
\* cache-key function or the step function, or the loop is over and the
\* action handler is called.  called = the middleware whose step function
\* was invoked (0 = none).
enterLoop(inv) ==
    LET list == MwsOf(inv.act) IN
    IF inv.i <= Len(list)
    THEN LET m == list[inv.i] IN
         IF mws[m].keys = NoFn
         THEN [inv |-> [inv EXCEPT !.pc = "step",
                                   !.log = @ \o <<<<"begin", m>>, <<"call", m>>>>],
               called |-> m]
         ELSE [inv |-> [inv EXCEPT !.pc = "keys",
                                   !.log = @ \o <<<<"begin", m>>, <<"keys", m>>>>
                                             \o (IF Completed(m, inv) THEN <<<<"prior", m>>>>
                                                 ELSE <<>>)],
               called |-> 0]
    ELSE [inv |-> [inv EXCEPT !.pc = "handler",
                              !.log = Append(@, <<"handler", 0>>),
                              !.hctx = inv.ctx,
                              !.hinput = inv.input],
          called |-> 0]

Count(m, r) == IF <<m, r>> \in DOMAIN calls THEN calls[<<m, r>>] ELSE 0

\* the step function of middleware m has been invoked for request r (m = 0: none)
Called(m, r) ==
    IF m = 0 THEN calls
    ELSE [c \in DOMAIN calls \cup {<<m, r>>} |->
            (IF c \in DOMAIN calls THEN calls[c] ELSE 0) + (IF c = <<m, r>> THEN 1 ELSE 0)]

\* mutant of newInvocation: the context object is shared with the invocation before
newInvocationSharedCtx(a, entry, request, raw, input) ==
    [ act |-> a, entry |-> entry, request |-> request, raw |-> raw, input |-> input,
      pc |-> "start", i |-> 1,
      ctx |-> IF Len(invs) > 0 THEN invs[Len(invs)].ctx ELSE [request |-> request, user |-> 0],
      key |-> NoKey, cached |-> 0, log |-> <<>>,
      hctx |-> NoCtx, hinput |-> NoInput, result |-> Undef ]

\* a new invocation record; _execute's let ctx = { request }
newInvocation(a, entry, request, raw, input) ==
    [ act |-> a, entry |-> entry, request |-> request, raw |-> raw, input |-> input,
      pc |-> "start", i |-> 1, ctx |-> [request |-> request, user |-> 0],
      key |-> NoKey, cached |-> 0, log |-> <<>>,
      hctx |-> NoCtx, hinput |-> NoInput, result |-> Undef ]

\* the raw inputs the router or caller supplies
Inputs ==
    { [params |-> Vgood, query |-> Vcount, body |-> Vid],
      [params |-> Vbad, query |-> Vcount, body |-> Vid],
      [params |-> Vgood, query |-> Undef, body |-> Vid],
      [params |-> Vgood, query |-> Vcount, body |-> Undef],
      [params |-> Vfull, query |-> Vgood, body |-> Vgood] }

\* the Request objects seen so far, and one more while the bound allows
UsedRequests == {invs[k].request : k \in 1..Len(invs)}
Requests == {r \in 1..MaxReq : r = 1 \/ r - 1 \in UsedRequests}

\* Action.run(request, input)
run(a, request, raw) ==
    /\ Len(invs) < MaxInv
    /\ LET v == validateInput(acts[a], raw)
           fresh == newInvocation(a, "run", request, raw, v.input)
       IN IF ~v.ok
          THEN /\ invs' = Append(invs, [fresh EXCEPT !.pc = "rejected",
                                                     !.log = <<<<"invalid", 0>>>>])
               /\ UNCHANGED calls
          ELSE LET e == enterLoop(fresh)
               IN /\ invs' = Append(invs, e.inv)
                  /\ calls' = Called(e.called, request)
    /\ UNCHANGED <<heapVars, cache, tr>>

\* Action.handle(context): no validation of the inputs
handle(a, request, raw) ==
    /\ Len(invs) < MaxInv
    /\ LET v == handleInput(acts[a], raw)
           fresh == newInvocation(a, "handle", request, raw, v.input)
       IN IF ~v.ok
          THEN /\ invs' = Append(invs, [fresh EXCEPT !.pc = "rejected",
                                                     !.log = <<<<"invalid", 0>>>>])
               /\ UNCHANGED calls
          ELSE LET e == enterLoop(fresh)
               IN /\ invs' = Append(invs, e.inv)
                  /\ calls' = Called(e.called, request)
    /\ UNCHANGED <<heapVars, cache, tr>>

\* after Middleware.execute has returned out: merge it, go round the loop
afterExecute(inv, m, out, event) ==
    enterLoop([inv EXCEPT !.ctx = mergeCtx(inv.ctx, out),
                          !.i = nextIndex(inv.i),
                          !.key = NoKey,
                          !.cached = 0,
                          !.log = @ \o <<<<event, m>>, <<"end", m>>>>])

\* mutant of weakKey: one cache map for all requests
weakKeyShared(request) == 1

\* the key of the WeakMap: input.ctx.request
weakKey(request) == request

\* cached.set(key, result ?? null); cache.set(input.ctx.request, cached)
Store(c, request, ref, key, value) ==
    [ weak |-> [r \in DOMAIN c.weak \cup {weakKey(request)} |->
                  IF r = weakKey(request) THEN ref ELSE c.weak[r]],
      maps |-> [c.maps EXCEPT ![ref] =
                  [x \in DOMAIN @ \cup {key} |-> IF x = key THEN value ELSE @[x]]] ]

\* Middleware.execute resumes after await this._keys(input)
keysDone(k) ==
    LET inv == invs[k]
        m == MwsOf(inv.act)[inv.i]
        ks == KeysResult(mws[m].keys, CallInput(inv))
        key == cacheKey(m, ks.array)
        \* cache.get(input.ctx.request) ?? new Map()
        known == weakKey(inv.request) \in DOMAIN cache.weak
        ref == IF known THEN cache.weak[weakKey(inv.request)] ELSE Len(cache.maps) + 1
        maps1 == IF known THEN cache.maps ELSE Append(cache.maps, [x \in {} |-> 0])
    IN /\ inv.pc = "keys"
       /\ IF ks.threw
          THEN /\ invs' = [invs EXCEPT ![k] = [inv EXCEPT !.pc = "rejected",
                                                          !.log = Append(@, <<"throw", m>>)]]
               /\ UNCHANGED <<cache, calls>>
          ELSE IF key \in DOMAIN maps1[ref]
          THEN \* cached.has(key): return cached.get(key)
               LET e == afterExecute(inv, m, maps1[ref][key], "hit")
               IN /\ invs' = [invs EXCEPT ![k] = e.inv]
                  /\ cache' = [cache EXCEPT !.maps = maps1]
                  /\ calls' = Called(e.called, inv.request)
          ELSE \* await this._handler(input)
               /\ invs' = [invs EXCEPT ![k] = [inv EXCEPT !.pc = "step",
                                                          !.key = key,
                                                          !.cached = ref,
                                                          !.log = Append(@, <<"call", m>>)]]
               /\ cache' = [cache EXCEPT !.maps = maps1]
               /\ calls' = Called(m, inv.request)
       /\ UNCHANGED <<heapVars, tr>>

\* result ?? null
Stored(result) ==
    IF result.kind = "undefined" THEN [result EXCEPT !.kind = "null"] ELSE result

\* mutant of cacheAfterStep: the result of a middleware without keys is
\* stored too, under its identity and the empty key list
cacheAfterStepAll(c, inv, m, result) ==
    IF stepThrows(result) THEN c
    ELSE IF mws[m].keys = NoFn
    THEN Store([c EXCEPT !.maps = Append(@, [x \in {} |-> 0])], inv.request,
               Len(c.maps) + 1, cacheKey(m, <<>>), Stored(result))
    ELSE Store(c, inv.request, inv.cached, inv.key, Stored(result))

\* mutant of cacheAfterStep: the result is stored in a finally block
cacheAfterStepFinally(c, inv, m, result) ==
    IF mws[m].keys = NoFn THEN c
    ELSE Store(c, inv.request, inv.cached, inv.key, Stored(result))

\* the cache after await this._handler(input) has settled: a throw leaves
\* execute before cached.set, a middleware without keys never gets there
cacheAfterStep(c, inv, m, result) ==
    IF stepThrows(result) \/ mws[m].keys = NoFn THEN c
    ELSE Store(c, inv.request, inv.cached, inv.key, Stored(result))

\* Middleware.execute resumes after await this._handler(input)
stepDone(k) ==
    LET inv == invs[k]
        m == MwsOf(inv.act)[inv.i]
        result == StepResult(m, CallInput(inv))
    IN /\ inv.pc = "step"
       /\ cache' = cacheAfterStep(cache, inv, m, result)
       /\ IF stepThrows(result)
          THEN /\ invs' = [invs EXCEPT ![k] = [inv EXCEPT !.pc = "rejected",
                                                          !.log = Append(@, <<"throw", m>>)]]
               /\ UNCHANGED calls
          ELSE LET e == afterExecute(inv, m, result, "return")
               IN /\ invs' = [invs EXCEPT ![k] = e.inv]
                  /\ calls' = Called(e.called, inv.request)
       /\ UNCHANGED <<heapVars, tr>>

\* the action handler settles; run validates the output, handle does not
handlerDone(k) ==
    LET inv == invs[k]
        act == acts[inv.act]
        r == ActionResult(act.handler, [ctx |-> inv.hctx, params |-> inv.hinput.params,
                                        query |-> inv.hinput.query, body |-> inv.hinput.body])
        out == IF inv.entry = "run" THEN validateOutput(act, r.value)
               ELSE [ok |-> TRUE, value |-> r.value]
    IN /\ inv.pc = "handler"
       /\ invs' = [invs EXCEPT ![k] =
                     IF r.threw THEN [inv EXCEPT !.pc = "rejected",
                                                 !.log = Append(@, <<"throw", 0>>)]
                     ELSE IF ~out.ok THEN [inv EXCEPT !.pc = "rejected",
                                                      !.log = Append(@, <<"badoutput", 0>>)]
                     ELSE [inv EXCEPT !.pc = "resolved",
                                      !.result = out.value,
                                      !.log = Append(@, <<"return", 0>>)]]
       /\ UNCHANGED <<heapVars, cache, calls, tr>>

----------------------------------------------------------------------------
(* The construction steps of the library as actions *)

Construct(H) == Objects < MaxObjects /\ SetHeap(H) /\ UNCHANGED <<runtime, tr>>

DoCreateProcedure == \E name \in ProcNames, base \in 0..Len(procs) :
                         Construct(createProcedure(Heap, name, base))
DoPBParams == \E b \in 1..Len(pbs), s \in UserSchemas : Construct(PB_params(Heap, b, s))
DoPBQuery == \E b \in 1..Len(pbs), s \in QuerySchemas : Construct(PB_query(Heap, b, s))
DoPBBody == \E b \in 1..Len(pbs), s \in BodySchemas : Construct(PB_body(Heap, b, s))
DoPBCache == \E b \in 1..Len(pbs), k \in KeyFns : Construct(PB_cache(Heap, b, k))
DoPBBuild == \E b \in 1..Len(pbs), h \in StepFns \cup {NoFn} : Construct(PB_build(Heap, b, h))
DoCreateAction == \E p \in 1..Len(procs), name \in ActionNames, d \in Details :
                      Construct(createAction(Heap, p, name, d))
DoABParams == \E a \in 1..Len(abs), s \in UserSchemas : Construct(AB_params(Heap, a, s))
DoABQuery == \E a \in 1..Len(abs), s \in QuerySchemas : Construct(AB_query(Heap, a, s))
DoABBody == \E a \in 1..Len(abs), s \in BodySchemas : Construct(AB_body(Heap, a, s))
DoABOutput == \E a \in 1..Len(abs), s \in UserSchemas : Construct(AB_output(Heap, a, s))
DoABBuild == \E a \in 1..Len(abs), h \in ActionFns : Construct(AB_build(Heap, a, h))

\* state after loading the library: nothing has been constructed
Init ==
    /\ arrays = <<>>
    /\ mws = <<>>
    /\ pbs = <<>>
    /\ procs = <<>>
    /\ abs = <<>>
    /\ acts = <<>>
    /\ prov = EmptyHeap.prov
    /\ invs = <<>>
    /\ cache = [weak |-> [r \in {} |-> 0], maps |-> <<>>]
    /\ calls = [c \in {} |-> 0]
    /\ tr = NoTrace

Next ==
    \/ DoCreateProcedure
    \/ DoPBParams
    \/ DoPBQuery
    \/ DoPBBody
    \/ DoPBCache
    \/ DoPBBuild
    \/ DoCreateAction
    \/ DoABParams
    \/ DoABQuery
    \/ DoABBody
    \/ DoABOutput
    \/ DoABBuild

Spec == Init /\ [][Next]_vars

----------------------------------------------------------------------------
(* Properties of construction (checked under Spec) *)

Range(seq) == {seq[x] : x \in 1..Len(seq)}

\* the chain a procedure builder started from: that of the base procedure
\* handed to createProcedure, or the empty chain
InheritedChain(base) == IF base = 0 THEN <<>> ELSE arrays[procs[base].middlewares]

OwnChain(mw) == IF mw = 0 THEN <<>> ELSE <<mw>>

\* C1: the chain of every built procedure is the chain of the base procedure
\* its builder was created from, followed by the one middleware wrapping the
\* handler given to build (by nothing when build got no handler).
C1_ChildChainIsParentPlusOwn ==
    \A c \in 1..Len(procs) :
        arrays[procs[c].middlewares] =
            InheritedChain(prov.proc[c].base) \o OwnChain(prov.proc[c].mw)

\* C2: the chain of every built action is the chain of the procedure
\* createAction was called on, whatever schema calls were made on the action
\* builder; the action handler is kept apart from it.
C2_ActionRunsProcedureChain ==
    /\ \A a \in 1..Len(acts) :
          /\ arrays[acts[a].middlewares] = arrays[procs[prov.act[a].proc].middlewares]
          /\ acts[a].handler \in ActionFns
    /\ \A a \in 1..Len(abs) :
          arrays[abs[a].middlewares] = arrays[procs[prov.ab[a].proc].middlewares]

C2_Witness ==
    \E a \in 1..Len(acts) :
        /\ Len(arrays[acts[a].middlewares]) >= 1
        /\ prov.ab[prov.act[a].builder].parent # 0

\* C3: a procedure never contains the middleware of another build call made
\* on its builder (or on a builder its builder was derived from): every
\* middleware of its chain is inherited from the base procedure or is its own.
C3_LaterBuildExcludesEarlierHandler ==
    \A c \in 1..Len(procs) :
        Range(arrays[procs[c].middlewares]) \subseteq
            Range(InheritedChain(prov.proc[c].base)) \cup Range(OwnChain(prov.proc[c].mw))

SameSchemas(x, y) == x.params = y.params /\ x.query = y.query /\ x.body = y.body

\* what one schema call adds to the receiver's schemas
AddedBy(child, parent, slot, schema) ==
    /\ FieldsOf(child.params) =
          FieldsOf(parent.params) \cup (IF slot = "params" THEN FieldsOf(schema) ELSE {})
    /\ FieldsOf(child.query) =
          FieldsOf(parent.query) \cup (IF slot = "query" THEN FieldsOf(schema) ELSE {})
    /\ FieldsOf(child.body) =
          FieldsOf(parent.body) \cup (IF slot = "body" THEN FieldsOf(schema) ELSE {})

\* C4: a builder returned by params, query, body, cache or output holds the
\* fields of the builder it was called on, as that builder still is, plus the
\* fields of its own call and nothing of any sibling; built procedures and
\* actions carry the schemas of their builder.
C4_ForksAreIndependent ==
    /\ \A b \in 1..Len(pbs) :
          prov.pb[b].parent # 0 =>
              /\ AddedBy(pbs[b], pbs[prov.pb[b].parent], prov.pb[b].call, prov.pb[b].arg)
              /\ prov.pb[b].call # "cache" => pbs[b].keys = pbs[prov.pb[b].parent].keys
    /\ \A a \in 1..Len(abs) :
          prov.ab[a].parent # 0 =>
              /\ AddedBy(abs[a], abs[prov.ab[a].parent], prov.ab[a].call, prov.ab[a].arg)
              /\ abs[a].output = IF prov.ab[a].call = "output" THEN prov.ab[a].arg
                                 ELSE abs[prov.ab[a].parent].output
    /\ \A c \in 1..Len(procs) : SameSchemas(procs[c], pbs[prov.proc[c].builder])
    /\ \A a \in 1..Len(acts) :
          /\ SameSchemas(acts[a], abs[prov.act[a].builder])
          /\ acts[a].output = abs[prov.act[a].builder].output

\* two procedures built from two forks of one builder, with different fields
C4_Witness ==
    \E c, d \in 1..Len(procs) :
        LET x == prov.proc[c].builder
            y == prov.proc[d].builder
        IN /\ x # y
           /\ prov.pb[x].parent # 0
           /\ prov.pb[x].parent = prov.pb[y].parent
           /\ FieldsOf(procs[c].params) # FieldsOf(procs[d].params)

\* C5: no step changes the schemas or the middleware chain of a procedure or
\* action that has been built.
C5_BuiltObjectsNeverChange ==
    [][ /\ \A c \in 1..Len(procs) :
              /\ procs'[c] = procs[c]
              /\ arrays'[procs'[c].middlewares] = arrays[procs[c].middlewares]
        /\ \A a \in 1..Len(acts) :
              /\ acts'[a] = acts[a]
              /\ arrays'[acts'[a].middlewares] = arrays[acts[a].middlewares]
      ]_vars

\* a procedure was used as a base, its child was built with a handler, and an
\* action was created from it
C5_Witness ==
    /\ \E c \in 1..Len(procs) : prov.proc[c].base # 0 /\ prov.proc[c].mw # 0
    /\ \E a \in 1..Len(abs) : prov.ab[a].proc = 1

\* every object value over the fields of the model
AllValues == {Obj(fs) : fs \in [ValueFields -> Atoms \cup {Absent}]}

\* the calls merge(prev, next) made so far with an object schema as prev:
\* params, query and body on a procedure builder or an action builder
Merges ==
    { [prev |-> pbs[prov.pb[b].parent][prov.pb[b].call], next |-> prov.pb[b].arg,
       merged |-> pbs[b][prov.pb[b].call]] :
        b \in {x \in 1..Len(pbs) : prov.pb[x].parent # 0 /\ prov.pb[x].call \in {"params", "query", "body"}
                                     /\ pbs[prov.pb[x].parent][prov.pb[x].call].def} }
    \cup
    { [prev |-> abs[prov.ab[a].parent][prov.ab[a].call], next |-> prov.ab[a].arg,
       merged |-> abs[a][prov.ab[a].call]] :
        a \in {x \in 1..Len(abs) : prov.ab[x].parent # 0 /\ prov.ab[x].call \in {"params", "query", "body"}
                                     /\ abs[prov.ab[x].parent][prov.ab[x].call].def} }

Disjoint(A, B) == FieldsOf(A) \cap FieldsOf(B) = {}

\* C19: for prev and next with disjoint field names, merge(prev, next) has
\* the fields of both, each with its definition, and forbids additional
\* fields; the engine accepts every value that satisfies prev and next,
\* keeps its declared fields, and cleaning leaves no undeclared field.
C19_MergeOfDisjointSchemas ==
    \A c \in Merges :
        Disjoint(c.prev, c.next) =>
            /\ FieldsOf(c.merged) = FieldsOf(c.prev) \cup FieldsOf(c.next)
            /\ \A f \in FieldsOf(c.prev) : c.merged.properties[f] = c.prev.properties[f]
            /\ \A f \in FieldsOf(c.next) : c.merged.properties[f] = c.next.properties[f]
            /\ c.merged.additionalProperties = FALSE
            /\ \A v \in AllValues :
                  /\ OnlyDeclared(c.merged, Clean(c.merged, v))
                  /\ (Satisfies(c.prev, v) /\ Satisfies(c.next, v)) =>
                        /\ Parse(c.merged, v).ok
                        /\ \A g \in FieldsOf(c.merged) :
                              Parse(c.merged, v).value.fields[g] = v.fields[g]

\* { id: string } merged with { count: number } on a procedure builder
C19_Witness ==
    \E c \in Merges :
        /\ Disjoint(c.prev, c.next)
        /\ FieldsOf(c.prev) # {}
        /\ FieldsOf(c.merged) = {"id", "count"}

\* C20: a field declared in both prev and next has next's definition in
\* merge(prev, next).
C20_MergeNextOverridesPrev ==
    \A c \in Merges :
        \A f \in FieldsOf(c.prev) \cap FieldsOf(c.next) :
            c.merged.properties[f] = c.next.properties[f]

RECURSIVE FinalSchema(_, _)
\* the schema of a slot after the calls made on the chain of action builders
\* that ends in builder b, starting from the procedure's schema
FinalSchema(b, slot) ==
    IF prov.ab[b].parent = 0
    THEN (IF slot = "output" THEN undefined ELSE procs[prov.ab[b].proc][slot])
    ELSE IF prov.ab[b].call # slot THEN FinalSchema(prov.ab[b].parent, slot)
    ELSE IF slot = "output" THEN prov.ab[b].arg
    ELSE merge(FinalSchema(prov.ab[b].parent, slot), prov.ab[b].arg)

DocsShowFinalSchemas(a) ==
    LET b == prov.act[a].builder
        d == docs(acts[a])
    IN /\ d.params = FinalSchema(b, "params")
       /\ d.query = FinalSchema(b, "query")
       /\ d.body = FinalSchema(b, "body")
       /\ d.response = FinalSchema(b, "output")

DocsKeepDetails(a) ==
    \A k \in DetailKeys :
        (abs[prov.act[a].builder].details.def /\ abs[prov.act[a].builder].details.fields[k] # None) =>
            docs(acts[a]).detail[k] = abs[prov.act[a].builder].details.fields[k]

\* C22 as stated: the docs of every built action show its final schemas,
\* detail.summary is the action's name and detail holds every supplied
\* details field.
C22_DocsSummaryIsName ==
    \A a \in 1..Len(acts) :
        /\ DocsShowFinalSchemas(a)
        /\ docs(acts[a]).detail["summary"] = acts[a].name
        /\ DocsKeepDetails(a)

\* C22 amended: the docs of every built action show its final schemas,
\* detail holds every supplied details field, and detail.summary is the
\* action's name when the details supply no summary.
C22_DocsShowFinalState ==
    \A a \in 1..Len(acts) :
        /\ DocsShowFinalSchemas(a)
        /\ DocsKeepDetails(a)
        /\ (~acts[a].details.def \/ acts[a].details.fields["summary"] = None) =>
              docs(acts[a]).detail["summary"] = acts[a].name

\* an action with a description, an output schema and a merged params schema
C22_Witness ==
    \E a \in 1..Len(acts) :
        /\ docs(acts[a]).detail["description"] = "text"
        /\ docs(acts[a]).detail["summary"] = "A"
        /\ \/ docs(acts[a]).response.def
           \/ docs(acts[a]).params.def

\* C24: a builder made by createProcedure(name, base) has base's params,
\* query and body (undefined without a base), one made by createAction has
\* the procedure's and no output schema; what is built from them right away
\* has the same.
C24_ChildStartsFromParentSchemas ==
    /\ \A b \in 1..Len(pbs) :
          prov.pb[b].parent = 0 =>
              IF prov.pb[b].base = 0
              THEN pbs[b].params = undefined /\ pbs[b].query = undefined /\ pbs[b].body = undefined
              ELSE SameSchemas(pbs[b], procs[prov.pb[b].base])
    /\ \A c \in 1..Len(procs) :
          (prov.pb[prov.proc[c].builder].parent = 0 /\ prov.proc[c].base # 0) =>
              SameSchemas(procs[c], procs[prov.proc[c].base])
    /\ \A a \in 1..Len(abs) :
          prov.ab[a].parent = 0 =>
              SameSchemas(abs[a], procs[prov.ab[a].proc]) /\ abs[a].output = undefined
    /\ \A a \in 1..Len(acts) :
          prov.ab[prov.act[a].builder].parent = 0 =>
              SameSchemas(acts[a], procs[prov.act[a].proc]) /\ acts[a].output = undefined

\* a procedure with a params schema, and an action built from it with no
\* schema call
C24_Witness ==
    \E a \in 1..Len(acts) :
        /\ prov.ab[prov.act[a].builder].parent = 0
        /\ procs[prov.act[a].proc].params.def
        /\ acts[a].params = procs[prov.act[a].proc].params

----------------------------------------------------------------------------
(* Invocations of one built action *)

DoRun == \E a \in 1..Len(acts), r \in Requests, raw \in Inputs : run(a, r, raw)
DoHandle == \E a \in 1..Len(acts), r \in Requests, raw \in Inputs : handle(a, r, raw)
DoKeysDone == \E k \in 1..Len(invs) : keysDone(k)
DoStepDone == \E k \in 1..Len(invs) : stepDone(k)
DoHandlerDone == \E k \in 1..Len(invs) : handlerDone(k)

LastPB(H) == Len(H.pbs)
LastAB(H) == Len(H.abs)

\* Type.Object({ id: Type.Number(), count: Type.Number() })
IdAndCount == TypeObject([f \in Fields |-> "number"], TRUE)

\* the output schema and the handler of the action under invocation
OutputAndHandler ==
    { <<undefined, "full">>, <<Single("count", "number"), "full">>,
      <<Single("id", "number"), "full">>, <<Single("count", "string"), "full">>,
      <<undefined, "echo">>, <<undefined, "fail">> }

\* The state after this program has run, and before any request:
\*   base    = createProcedure('P')[.params(..).query(..).body(..)][.cache(k1)].build(h1)
\*   derived = createProcedure('P', base).build(h2?)
\*   action  = derived.createAction('A')[.params(..)][.output(os)].build(f)
\* where the action's params schema adds count and redeclares the procedure's id
RunInit ==
    \E h1 \in StepFns, k1 \in {NoFn, "empty"}, h2 \in {"user", "fail", NoFn},
       withSchemas \in BOOLEAN, oh \in OutputAndHandler :
    \E H1 \in {createProcedure(EmptyHeap, "P", 0)} :
    \E H2a \in {IF withSchemas THEN PB_params(H1, LastPB(H1), Single("id", "string")) ELSE H1} :
    \E H2b \in {IF withSchemas THEN PB_query(H2a, LastPB(H2a), Single("count", "number")) ELSE H2a} :
    \E H2 \in {IF withSchemas THEN PB_body(H2b, LastPB(H2b), Single("id", "string")) ELSE H2b} :
    \E H3 \in {IF k1 # NoFn THEN PB_cache(H2, LastPB(H2), k1) ELSE H2} :
    \E H4 \in {PB_build(H3, LastPB(H3), h1)} :
    \E H5 \in {createProcedure(H4, "P", 1)} :
    \E H6 \in {PB_build(H5, LastPB(H5), h2)} :
    \E H7 \in {createAction(H6, 2, "A", NoDetails)} :
    \E H8 \in {IF withSchemas THEN AB_params(H7, LastAB(H7), IdAndCount) ELSE H7} :
    \E H9 \in {IF oh[1].def THEN AB_output(H8, LastAB(H8), oh[1]) ELSE H8} :
    \E H \in {AB_build(H9, LastAB(H9), oh[2])} :
       /\ arrays = H.arrays
       /\ mws = H.mws
       /\ pbs = H.pbs
       /\ procs = H.procs
       /\ abs = H.abs
       /\ acts = H.acts
       /\ prov = H.prov
       /\ invs = <<>>
       /\ cache = [weak |-> [r \in {} |-> 0], maps |-> <<>>]
       /\ calls = [c \in {} |-> 0]
       /\ tr = NoTrace

NextRun ==
    \/ DoRun
    \/ DoHandle
    \/ DoKeysDone
    \/ DoStepDone
    \/ DoHandlerDone

SpecRun == RunInit /\ [][NextRun]_vars

----------------------------------------------------------------------------
(* Invocations of an action whose middlewares are memoized per request *)

Vid42 == Obj([g \in ValueFields |-> IF g = "id" THEN "S_42" ELSE Absent])

Vempty == Obj([g \in ValueFields |-> IF g = "id" THEN "S_empty" ELSE Absent])
Vnone == Obj([g \in ValueFields |-> Absent])

\* the inputs the router supplies: two product ids, the empty id, params
\* without properties, and no params at all
KeyInputs ==
    { [params |-> Vid, query |-> Undef, body |-> Undef],
      [params |-> Vid42, query |-> Undef, body |-> Undef],
      [params |-> Vempty, query |-> Undef, body |-> Undef],
      [params |-> Vnone, query |-> Undef, body |-> Undef],
      [params |-> Undef, query |-> Undef, body |-> Undef] }

DoHandleKeyed == \E a \in 1..Len(acts), r \in Requests, raw \in KeyInputs : handle(a, r, raw)

\* The state after this program has run, and before any request:
\*   base    = createProcedure('P')[.cache(k1)].build(h1)
\*   derived = createProcedure('P', base)[.cache(k2)].build(h2)
\*   action  = derived.createAction('A').build(echo)
CacheInit ==
    \E h1 \in StepFns, k1 \in KeyFns \cup {NoFn}, h2 \in {"user", "void"}, k2 \in {"empty", NoFn} :
    \E H1 \in {createProcedure(EmptyHeap, "P", 0)} :
    \E H2 \in {IF k1 # NoFn THEN PB_cache(H1, LastPB(H1), k1) ELSE H1} :
    \E H3 \in {PB_build(H2, LastPB(H2), h1)} :
    \E H4 \in {createProcedure(H3, "P", 1)} :
    \E H5 \in {IF k2 # NoFn THEN PB_cache(H4, LastPB(H4), k2) ELSE H4} :
    \E H6 \in {PB_build(H5, LastPB(H5), h2)} :
    \E H7 \in {createAction(H6, 2, "A", NoDetails)} :
    \E H \in {AB_build(H7, LastAB(H7), "echo")} :
       /\ arrays = H.arrays
       /\ mws = H.mws
       /\ pbs = H.pbs
       /\ procs = H.procs
       /\ abs = H.abs
       /\ acts = H.acts
       /\ prov = H.prov
       /\ invs = <<>>
       /\ cache = [weak |-> [r \in {} |-> 0], maps |-> <<>>]
       /\ calls = [c \in {} |-> 0]
       /\ tr = NoTrace

NextCache ==
    \/ DoHandleKeyed
    \/ DoKeysDone
    \/ DoStepDone
    \/ DoHandlerDone

SpecCache == CacheInit /\ [][NextCache]_vars

----------------------------------------------------------------------------
(* One call of trace(options, fn) *)

\* trace resumes after await import('@sentry/bun')
TrySentry ==
    /\ tr.pc = "sentry"
    /\ tr' = tryBackend(tr, tr.sentry, "otel")
    /\ UNCHANGED <<heapVars, runtime>>

\* trace resumes after await import('@elysiajs/opentelemetry')
TryOtel ==
    /\ tr.pc = "otel"
    /\ tr' = tryBackend(tr, tr.otel, "direct")
    /\ UNCHANGED <<heapVars, runtime>>

\* trace(options, fn) has been called and awaits its first import
TraceInit ==
    /\ arrays = <<>>
    /\ mws = <<>>
    /\ pbs = <<>>
    /\ procs = <<>>
    /\ abs = <<>>
    /\ acts = <<>>
    /\ prov = EmptyHeap.prov
    /\ invs = <<>>
    /\ cache = [weak |-> [r \in {} |-> 0], maps |-> <<>>]
    /\ calls = [c \in {} |-> 0]
    /\ \E s \in Backends, o \in Backends, f \in FnKinds :
          tr = [sentry |-> s, otel |-> o, fn |-> f,
                pc |-> "sentry", fnCalls |-> <<>>, outcome |-> "none"]

NextTrace ==
    \/ TrySentry
    \/ TryOtel

SpecTrace == TraceInit /\ [][NextTrace]_vars

\* C25: when neither backend can be loaded, trace calls fn once, without a
\* span, and settles as fn does.
C25_NoBackendCallsFnDirectly ==
    (tr.sentry = "absent" /\ tr.otel = "absent" /\ tr.pc = "done") =>
        /\ tr.fnCalls = <<"nospan">>
        /\ tr.outcome = FnOutcome(tr.fn)

\* without a backend, a call of trace whose fn rejects has settled
C25_Witness ==
    /\ tr.sentry = "absent"
    /\ tr.otel = "absent"
    /\ tr.pc = "done"
    /\ tr.fn = "rejects"
    /\ tr.outcome = "rejected"

\* C26: whatever the backends do and whether fn fails, a call of trace that
\* has settled has invoked fn exactly once and settled as fn does.
C26_TraceInvokesFnOnce ==
    tr.pc = "done" =>
        /\ Len(tr.fnCalls) = 1
        /\ tr.outcome = FnOutcome(tr.fn)

----------------------------------------------------------------------------
(* Properties of the per-request memo cache (checked under SpecCache) *)

Cached(m) == mws[m].keys # NoFn

\* C15: an execute of a cached middleware that begins after an execute of
\* the same middleware for the same request and key list has completed does
\* not invoke the step function.
C15_CompletedExecuteIsMemoized ==
    \A k \in 1..Len(invs) : \A m \in 1..Len(mws) :
        <<"prior", m>> \in Range(invs[k].log) => <<"call", m>> \notin Range(invs[k].log)

\* C16: the step function of a middleware whose cache-key function returns
\* the constant [] is invoked at most once for each request.
C16_ConstantKeyRunsOncePerRequest ==
    \A m \in 1..Len(mws) : \A r \in 1..MaxReq :
        mws[m].keys = "empty" => Count(m, r) <= 1

\* C17: no cache map is reachable from two requests, whether through the
\* WeakMap or through an execute that holds it across its await, and a
\* cached middleware is served from the cache of a request only after its
\* step function has been invoked for that request.
C17_CachePartitionedByRequest ==
    /\ \A r1, r2 \in DOMAIN cache.weak : r1 # r2 => cache.weak[r1] # cache.weak[r2]
    /\ \A k \in 1..Len(invs) : \A r \in DOMAIN cache.weak :
          (invs[k].cached # 0 /\ r # invs[k].request) => cache.weak[r] # invs[k].cached
    /\ \A k, j \in 1..Len(invs) :
          (invs[k].cached # 0 /\ invs[k].request # invs[j].request) =>
              invs[k].cached # invs[j].cached
    /\ \A k \in 1..Len(invs) : \A m \in 1..Len(mws) :
          (Cached(m) /\ (<<"hit", m>> \in Range(invs[k].log)
                         \/ <<"call", m>> \in Range(invs[k].log))) =>
              Count(m, invs[k].request) >= 1

\* a cached middleware completed for one request, then ran again for another
C17_Witness ==
    \E m \in 1..Len(mws) : \E k, j \in 1..Len(invs) :
        /\ Cached(m)
        /\ invs[k].request # invs[j].request
        /\ KeysOf(m, invs[k]) = KeysOf(m, invs[j])
        /\ <<"return", m>> \in Range(invs[k].log)
        /\ <<"return", m>> \in Range(invs[j].log)
        /\ Cardinality(DOMAIN cache.weak) = 2

\* what the cache holds for each request
CacheView == [r \in DOMAIN cache.weak |-> cache.maps[cache.weak[r]]]

\* C18: the step in which the cache-key function or the step function of a
\* cached middleware fails rejects the invocation and leaves what the cache
\* holds as it was; a failing middleware is never served from the cache, so
\* every later execute that gets its keys invokes the step function again.
C18_FailureIsNotCached ==
    [][ /\ \A k \in 1..Len(invs) :
              LET old == invs[k]
                  new == invs'[k]
                  list == MwsOf(old.act)
              IN (old.pc \in {"keys", "step"} /\ new.pc = "rejected" /\ Cached(list[old.i])) =>
                    /\ CacheView' = CacheView
                    /\ new.log[Len(new.log)] = <<"throw", list[old.i]>>
        /\ \A k \in 1..Len(invs') : \A m \in 1..Len(mws) :
              (Cached(m) /\ mws[m].handler = "fail") =>
                  /\ <<"hit", m>> \notin Range(invs'[k].log)
                  /\ \A r \in DOMAIN CacheView' : \A x \in DOMAIN CacheView'[r] : x[1] # m
      ]_vars

\* the failing step function of a cached middleware was invoked in two
\* invocations for one request and key list
C18_Witness ==
    \E m \in 1..Len(mws) :
        /\ Cached(m)
        /\ mws[m].handler = "fail"
        /\ Len(invs) = 2
        /\ invs[1].request = invs[2].request
        /\ invs[1].raw = invs[2].raw
        /\ \A k \in 1..2 : invs[k].pc = "rejected" /\ <<"call", m>> \in Range(invs[k].log)
        /\ Count(m, invs[1].request) = 2

----------------------------------------------------------------------------
(* Properties of one invocation (checked under SpecRun) *)

IsExec(e) == e[1] \in {"begin", "end"}
ExecEvents(log) == SelectSeq(log, IsExec)

RECURSIVE InOrder(_)
\* every middleware of the chain entered and left once, one after the other
InOrder(list) ==
    IF Len(list) = 0 THEN <<>>
    ELSE <<<<"begin", list[1]>>, <<"end", list[1]>>>> \o InOrder(Tail(list))

IsPrefix(x, y) == Len(x) <= Len(y) /\ SubSeq(y, 1, Len(x)) = x

Positions(log, e) == {x \in 1..Len(log) : log[x] = e}

\* C6: the begin and end of Middleware.execute alternate along the chain in
\* list order, and an invocation that reaches its handler has entered and
\* left every middleware of the chain exactly once.
C6_MiddlewaresRunInOrderOnce ==
    \A k \in 1..Len(invs) :
        LET inv == invs[k]
            list == MwsOf(inv.act)
        IN /\ IsPrefix(ExecEvents(inv.log), InOrder(list))
           /\ inv.pc \in {"handler", "resolved"} => ExecEvents(inv.log) = InOrder(list)

C6_Witness ==
    \E k \in 1..Len(invs) :
        /\ invs[k].pc = "resolved"
        /\ Len(MwsOf(invs[k].act)) = 2
        /\ ExecEvents(invs[k].log) = InOrder(MwsOf(invs[k].act))

RECURSIVE Accumulated(_, _)
\* the context after the contributions of the chain, merged in list order
Accumulated(ctx, list) ==
    IF Len(list) = 0 THEN ctx
    ELSE Accumulated(IF mws[list[1]].handler = "user" THEN [ctx EXCEPT !.user = list[1]]
                     ELSE ctx,
                     Tail(list))

\* C7: the action handler is called at most once, only after every
\* middleware of the chain has returned, with the context accumulated from
\* all of them; an invocation that resolves has called it.
C7_HandlerRunsOnceLast ==
    \A k \in 1..Len(invs) :
        LET inv == invs[k]
            list == MwsOf(inv.act)
            at == Positions(inv.log, <<"handler", 0>>)
        IN /\ Cardinality(at) <= 1
           /\ inv.pc = "resolved" => Cardinality(at) = 1
           /\ \A x \in at :
                 /\ ExecEvents(SubSeq(inv.log, 1, x - 1)) = InOrder(list)
                 /\ ExecEvents(SubSeq(inv.log, x, Len(inv.log))) = <<>>
                 /\ inv.hctx = Accumulated([request |-> inv.request, user |-> 0], list)

C7_Witness ==
    \E k \in 1..Len(invs) :
        /\ invs[k].pc = "resolved"
        /\ Len(MwsOf(invs[k].act)) = 2
        /\ invs[k].hctx.user = MwsOf(invs[k].act)[2]

\* C8: once the failing step function of the middleware at position j has
\* been called and has settled, the invocation is rejected, no middleware
\* after position j is entered and the action handler is not called.
C8_MiddlewareFailureAborts ==
    \A k \in 1..Len(invs) :
        LET inv == invs[k]
            list == MwsOf(inv.act)
        IN \A j \in 1..Len(list) :
              (mws[list[j]].handler = "fail" /\ <<"call", list[j]>> \in Range(inv.log)) =>
                  /\ inv.pc \in {"step", "rejected"}
                  /\ inv.pc = "step" => inv.i = j
                  /\ \A j2 \in (j + 1)..Len(list) : <<"begin", list[j2]>> \notin Range(inv.log)
                  /\ <<"handler", 0>> \notin Range(inv.log)

\* the first of two middlewares failed
C8_Witness ==
    \E k \in 1..Len(invs) :
        /\ invs[k].pc = "rejected"
        /\ Len(MwsOf(invs[k].act)) = 2
        /\ <<"throw", MwsOf(invs[k].act)[1]>> \in Range(invs[k].log)

Slots == {"params", "query", "body"}

\* the schema's clean-and-validate operation rejects the raw value
FailsSchema(act, raw) ==
    \E slot \in Slots : act[slot].def /\ ~Parse(act[slot], raw[slot]).ok

\* every raw value meets its schema as it is
MeetsSchemas(act, raw) ==
    \A slot \in Slots :
        act[slot].def => Satisfies(act[slot], raw[slot]) /\ Clean(act[slot], raw[slot]) = raw[slot]

Returned(inv) ==
    ActionResult(acts[inv.act].handler,
                 [ctx |-> inv.hctx, params |-> inv.hinput.params,
                  query |-> inv.hinput.query, body |-> inv.hinput.body])

HandlerReturned(inv) ==
    /\ inv.pc \in {"resolved", "rejected"}
    /\ <<"handler", 0>> \in Range(inv.log)
    /\ ~Returned(inv).threw

\* C10: when the handler of a run returns a value with every declared field
\* valid, run resolves with the declared fields of that value and no other
\* field; without an output schema run resolves with the value unchanged.
C10_RunCleansOutput ==
    \A k \in 1..Len(invs) :
        LET inv == invs[k]
            out == acts[inv.act].output
            raw == Returned(inv).value
        IN (inv.entry = "run" /\ HandlerReturned(inv)) =>
              IF out.def
              THEN Satisfies(out, raw) =>
                      /\ inv.pc = "resolved"
                      /\ inv.result.obj
                      /\ \A g \in ValueFields :
                            inv.result.fields[g] =
                                IF g \in FieldsOf(out) THEN raw.fields[g] ELSE Absent
              ELSE inv.pc = "resolved" /\ inv.result = raw

\* an undeclared field of the handler's result was removed
C10_Witness ==
    \E k \in 1..Len(invs) :
        /\ invs[k].entry = "run"
        /\ invs[k].pc = "resolved"
        /\ acts[invs[k].act].output.def
        /\ Returned(invs[k]).value.fields["extra"] # Absent
        /\ invs[k].result.fields["extra"] = Absent

C12_HandleValidatesOutput ==
    \A k \in 1..Len(invs) :
        LET inv == invs[k]
            out == acts[inv.act].output
        IN (inv.entry = "handle" /\ out.def) =>
              /\ (HandlerReturned(inv) /\ ~Parse(out, Returned(inv).value).ok) =>
                    inv.pc = "rejected"
              /\ inv.pc = "resolved" =>
                    Satisfies(out, inv.result) /\ OnlyDeclared(out, inv.result)

\* C13: handle hands the raw params, query and body to every middleware and
\* to the action handler as they are, and is never rejected for them, also
\* when they fail the action's schemas.
C13_HandleDoesNotValidateInput ==
    \A k \in 1..Len(invs) :
        LET inv == invs[k]
        IN inv.entry = "handle" =>
              /\ <<"invalid", 0>> \notin Range(inv.log)
              /\ inv.input = inv.raw
              /\ CallInput(inv).params = inv.raw.params
              /\ CallInput(inv).query = inv.raw.query
              /\ CallInput(inv).body = inv.raw.body
              /\ <<"handler", 0>> \in Range(inv.log) => inv.hinput = inv.raw

\* handle resolved with params that fail the action's params schema, after a
\* middleware and the handler were called with them
C13_Witness ==
    \E k \in 1..Len(invs) :
        /\ invs[k].entry = "handle"
        /\ invs[k].pc = "resolved"
        /\ FailsSchema(acts[invs[k].act], invs[k].raw)
        /\ Len(MwsOf(invs[k].act)) >= 1
        /\ invs[k].hinput = invs[k].raw

CtxKeys(ctx) ==
    (IF ctx.request # 0 THEN {"request"} ELSE {}) \cup (IF ctx.user # 0 THEN {"user"} ELSE {})

\* C14: an invocation starts with the context { request }; no step removes a
\* key of the context of an invocation; a middleware that returns nothing
\* leaves the context as it was, one that returns { user } makes it the
\* value of user for what follows, replacing an earlier one; the handler
\* gets the context as it is after the last middleware.
C14_ContextOnlyGrows ==
    [][ /\ \A k \in 1..Len(invs) :
              LET old == invs[k]
                  new == invs'[k]
                  list == MwsOf(old.act)
              IN /\ CtxKeys(old.ctx) \subseteq CtxKeys(new.ctx)
                 /\ new.ctx.request = old.ctx.request
                 /\ new.i = old.i => new.ctx = old.ctx
                 /\ new.i # old.i =>
                       /\ mws[list[old.i]].handler = "void" => new.ctx = old.ctx
                       /\ mws[list[old.i]].handler = "user" => new.ctx.user = list[old.i]
                 /\ (new.pc = "handler" /\ old.pc # "handler") => new.hctx = new.ctx
        /\ \A k \in (Len(invs) + 1)..Len(invs') :
              /\ invs'[k].ctx = [request |-> invs'[k].request, user |-> 0]
              /\ invs'[k].request # 0
      ]_vars

\* two middlewares both returned { user }: the handler saw the later value
C14_Witness ==
    \E k \in 1..Len(invs) :
        LET list == MwsOf(invs[k].act)
        IN /\ invs[k].pc = "resolved"
           /\ Len(list) = 2
           /\ mws[list[1]].handler = "user"
           /\ mws[list[2]].handler = "user"
           /\ invs[k].hctx = [request |-> invs[k].request, user |-> list[2]]

RECURSIVE SoloChain(_, _, _)
\* the chain run on its own from context ctx: ok = FALSE when a cache-key
\* function or a step function fails
SoloChain(list, ctx, input) ==
    IF Len(list) = 0 THEN [ok |-> TRUE, ctx |-> ctx]
    ELSE LET m == list[1]
             call == [ctx |-> ctx, params |-> input.params, query |-> input.query,
                      body |-> input.body]
         IN IF mws[m].keys # NoFn /\ KeysResult(mws[m].keys, call).threw
            THEN [ok |-> FALSE, ctx |-> ctx]
            ELSE IF mws[m].handler = "fail" THEN [ok |-> FALSE, ctx |-> ctx]
            ELSE SoloChain(Tail(list),
                           IF mws[m].handler = "user" THEN [ctx EXCEPT !.user = m] ELSE ctx,
                           input)

\* how the invocation settles when it is the only one
Solo(inv) ==
    LET act == acts[inv.act]
        rejected == [pc |-> "rejected", result |-> Undef]
        v == IF inv.entry = "run" THEN validateInput(act, inv.raw)
             ELSE [ok |-> TRUE, input |-> inv.raw]
        chain == SoloChain(MwsOf(inv.act), [request |-> inv.request, user |-> 0], v.input)
        r == ActionResult(act.handler, [ctx |-> chain.ctx, params |-> v.input.params,
                                        query |-> v.input.query, body |-> v.input.body])
        out == IF inv.entry = "run" /\ act.output.def THEN Parse(act.output, r.value)
               ELSE [ok |-> TRUE, value |-> r.value]
    IN IF ~v.ok \/ ~chain.ok \/ r.threw \/ ~out.ok THEN rejected
       ELSE [pc |-> "resolved", result |-> out.value]

OwnRequest(k) == \A j \in 1..Len(invs) : j # k => invs[j].request # invs[k].request

\* C23: of invocations on different requests, each has a context made of
\* its own request and of contributions of its own chain, hands its own
\* inputs to its middlewares and its handler, and settles as it does alone.
C23_InvocationsDoNotInterfere ==
    \A k \in 1..Len(invs) :
        LET inv == invs[k]
            list == MwsOf(inv.act)
        IN OwnRequest(k) =>
              /\ inv.ctx.request = inv.request
              /\ inv.ctx.user \in {0} \cup Range(list)
              /\ inv.pc \notin {"resolved", "rejected"} =>
                    inv.ctx = SoloChain(SubSeq(list, 1, inv.i - 1),
                                        [request |-> inv.request, user |-> 0], inv.input).ctx
              /\ <<"handler", 0>> \in Range(inv.log) =>
                    /\ inv.hinput = inv.input
                    /\ inv.hctx = SoloChain(list, [request |-> inv.request, user |-> 0],
                                            inv.input).ctx
              /\ inv.pc \in {"resolved", "rejected"} =>
                    inv.pc = Solo(inv).pc /\ inv.result = Solo(inv).result

\* an invocation resolved while an earlier one on another request was still
\* in its second middleware
C23_Witness ==
    \E j, k \in 1..Len(invs) :
        /\ j < k
        /\ invs[j].request # invs[k].request
        /\ invs[j].pc \in {"keys", "step"}
        /\ invs[j].i = 2
        /\ invs[j].ctx.user # 0
        /\ invs[k].pc = "resolved"
        /\ invs[k].hctx.user # 0

----------------------------------------------------------------------------
(* Further properties of the per-request memo cache (checked under SpecCache) *)

\* C30: an entry that the cache of a request holds stays in the cache of
\* that request through every step of every invocation.
C30_CacheEntriesAreNeverLost ==
    [][ \A r \in DOMAIN CacheView :
            /\ r \in DOMAIN CacheView'
            /\ DOMAIN CacheView[r] \subseteq DOMAIN CacheView'[r] ]_vars

\* C27: a cached middleware whose step function returns nothing is stored
\* as null, and an execute that begins after an execute for the same
\* request and key list has completed does not invoke its step function.
C27_VoidResultIsMemoized ==
    \A m \in 1..Len(mws) :
        (Cached(m) /\ mws[m].handler = "void") =>
            /\ \A r \in DOMAIN CacheView : \A x \in DOMAIN CacheView[r] :
                  x[1] = m => CacheView[r][x].kind = "null"
            /\ \A k \in 1..Len(invs) :
                  <<"prior", m>> \in Range(invs[k].log) =>
                      <<"call", m>> \notin Range(invs[k].log)

\* the number of executes of middleware m that the invocations on request r
\* have entered
RECURSIVE Entered(_, _, _)
Entered(m, r, k) ==
    IF k = 0 THEN 0
    ELSE Entered(m, r, k - 1)
         + (IF invs[k].request = r THEN Cardinality(Positions(invs[k].log, <<"begin", m>>))
            ELSE 0)

\* C28: every execute of a middleware without a cache-key function invokes
\* the step function at once and once, is never served from the cache and
\* leaves no entry in it; the step in which it returns leaves the cache as
\* it was and merges the step function's own result into the context.
C28_UncachedIsNeverMemoized ==
    [][ /\ \A m \in 1..Len(mws) :
              ~Cached(m) =>
                  /\ \A k \in 1..Len(invs') :
                        LET log == invs'[k].log
                        IN /\ <<"hit", m>> \notin Range(log)
                           /\ <<"keys", m>> \notin Range(log)
                           /\ \A x \in Positions(log, <<"begin", m>>) :
                                 x < Len(log) /\ log[x + 1] = <<"call", m>>
                  /\ \A r \in 1..MaxReq : (Count(m, r) = Entered(m, r, Len(invs)))'
                  /\ \A r \in DOMAIN CacheView' : \A x \in DOMAIN CacheView'[r] : x[1] # m
        /\ \A k \in 1..Len(invs) :
              LET old == invs[k]
                  new == invs'[k]
                  list == MwsOf(old.act)
              IN (old.pc = "step" /\ new # old /\ ~Cached(list[old.i])) =>
                    /\ cache' = cache
                    /\ new.pc # "rejected" =>
                          new.ctx = mergeCtx(old.ctx, StepResult(list[old.i], CallInput(old)))
      ]_vars

\* the step function of a middleware without keys ran to its end in two
\* invocations on one request, next to a cached middleware with an entry
C28_Witness ==
    \E m \in 1..Len(mws) :
        /\ ~Cached(m)
        /\ Len(invs) = 2
        /\ invs[1].request = invs[2].request
        /\ \A k \in 1..2 : <<"return", m>> \in Range(invs[k].log)
        /\ Count(m, invs[1].request) = 2
        /\ invs[1].request \in DOMAIN CacheView
        /\ \E x \in DOMAIN CacheView[invs[1].request] : x[1] # m

\* C29: an execute is served from the cache only if an execute of the same
\* middleware on the same request with an equal key list has returned.
C29_HitOnlyForEqualKeyList ==
    \A k \in 1..Len(invs) : \A m \in 1..Len(mws) :
        <<"hit", m>> \in Range(invs[k].log) =>
            \E j \in 1..Len(invs) :
                /\ invs[j].request = invs[k].request
                /\ <<"return", m>> \in Range(invs[j].log)
                /\ KeysOf(m, invs[j]) = KeysOf(m, invs[k])

====
